---------------------------- MODULE Spec2Model ----------------------------
(***************************************************************************)
(* State-machine model of the EduConnect browser client: ApiClient and     *)
(* ApiService (src/api.js), AuthManager (src/auth.js), Router              *)
(* (src/router.js) and the chat polling of UIManager (src/ui.js).          *)
(*                                                                         *)
(* JavaScript runs every event handler, and every chain of promise         *)
(* continuations that follows a settled fetch, to completion before the    *)
(* next event is taken.  One action of the model is therefore one such     *)
(* run: an API call or DOM event together with all the synchronous calls   *)
(* it makes, or the delivery of one HTTP response together with every      *)
(* continuation it resumes.  Each JavaScript function is an operator from  *)
(* program state to program state, so nested calls compose as in the code. *)
(***************************************************************************)
EXTENDS Integers, Sequences, FiniteSets, Bags, TLC

VARIABLES
    user,            \* AuthManager.user
    isAuthenticated, \* AuthManager.isAuthenticated
    isLoading,       \* AuthManager.isLoading
    listeners,       \* AuthManager.listeners, in registration order
    token,           \* ApiClient.token
    ls,              \* localStorage['auth_token']
    currentRoute,    \* Router.currentRoute
    currentParams,   \* Router.currentParams
    hist,            \* the browser's session history (paths of the entries)
    hidx,            \* index of the current history entry
    page,            \* what #app displays
    chatPolling,     \* UIManager.chatPolling (interval handle)
    currentGroupId,  \* UIManager.currentGroupId
    timers,          \* the live setInterval timers
    inflight,        \* fetches issued and not yet settled (a bag)
    ev               \* the last event taken (history variable)

vars == <<user, isAuthenticated, isLoading, listeners, token, ls, currentRoute,
          currentParams, hist, hidx, page, chatPolling, currentGroupId, timers,
          inflight, ev>>

----------------------------------------------------------------------------
(* Bounds of the model *)

MaxInflight == 2   \* fetches in flight at once
MaxHistory == 2    \* entries of the session history
MaxTimers == 2     \* live interval timers
MaxListeners == 4  \* registered auth subscribers
MaxRouterFetches == 1  \* fetches in flight when router.navigate is called

(* Values *)

Users == {"u1"}
Tokens == {"t1"}
Groups == {"g1", "g2"}
NoUser == "null"
NoToken == "null"
NoGroup == "null"
NoTimer == 0

(* What setToken may be called with: a token, null, or the empty string.   *)
EmptyToken == ""
TokenInputs == Tokens \cup {"t2", EmptyToken, NoToken}

(* `if (token)`: null and the empty string are falsy. *)
Truthy(t) == t \notin {NoToken, EmptyToken}

(* A path is the sequence of its segments: "/" is <<"">>, "/group/g1" is   *)
(* <<"group", "g1">>.  NoPath stands for null.                             *)
NoPath == <<>>
RootPath == <<"">>
LoginPath == <<"login">>
RegisterPath == <<"register">>
DashboardPath == <<"dashboard">>
GroupPath(g) == <<"group", g>>
UnknownPath == <<"nope">>

(* The paths the events draw from: one for each route, and one no route   *)
(* matches.                                                                *)
Paths == {RootPath, LoginPath, RegisterPath, DashboardPath, UnknownPath,
          GroupPath("g1")}

NoParams == [x \in {} |-> ""]

(* The paths router.navigate is called with directly: those, and paths     *)
(* that come close to a pattern without matching it, or equal it.          *)
PathInputs ==
    Paths \cup {GroupPath("g2"), <<"group", "">>, <<"group", "a", "b">>,
                <<"dashboard", "">>, <<"group", ":id">>}

----------------------------------------------------------------------------
(* The program state as one record, so that functions compose.  calls is   *)
(* not state: it collects, for the run in progress, the calls made to the  *)
(* auth subscribers, each with the object it was passed; uncaught is not   *)
(* state either: whether the run has thrown an error nothing catches; nor  *)
(* is sent: the Authorization header of each request the run has sent;     *)
(* nor dispatched: the session-expiry events the run has dispatched; nor   *)
(* writes: for each assignment of currentRoute and currentParams the run   *)
(* has made, the path being resolved, the two values assigned and          *)
(* auth.isAuthenticated at that moment; nor navigated: the path of each    *)
(* call of navigate the run has made.                                      *)

Cur == [user |-> user, isAuthenticated |-> isAuthenticated,
        isLoading |-> isLoading, listeners |-> listeners, token |-> token,
        ls |-> ls, currentRoute |-> currentRoute,
        currentParams |-> currentParams, hist |-> hist, hidx |-> hidx,
        page |-> page, chatPolling |-> chatPolling,
        currentGroupId |-> currentGroupId, timers |-> timers,
        inflight |-> inflight, calls |-> <<>>, uncaught |-> FALSE,
        sent |-> <<>>, dispatched |-> <<>>, writes |-> <<>>,
        navigated |-> <<>>]

Becomes(n) ==
    /\ user' = n.user
    /\ isAuthenticated' = n.isAuthenticated
    /\ isLoading' = n.isLoading
    /\ listeners' = n.listeners
    /\ token' = n.token
    /\ ls' = n.ls
    /\ currentRoute' = n.currentRoute
    /\ currentParams' = n.currentParams
    /\ hist' = n.hist
    /\ hidx' = n.hidx
    /\ page' = n.page
    /\ chatPolling' = n.chatPolling
    /\ currentGroupId' = n.currentGroupId
    /\ timers' = n.timers
    /\ inflight' = n.inflight

(* The state after construction is n. *)
Is(n) ==
    /\ user = n.user
    /\ isAuthenticated = n.isAuthenticated
    /\ isLoading = n.isLoading
    /\ listeners = n.listeners
    /\ token = n.token
    /\ ls = n.ls
    /\ currentRoute = n.currentRoute
    /\ currentParams = n.currentParams
    /\ hist = n.hist
    /\ hidx = n.hidx
    /\ page = n.page
    /\ chatPolling = n.chatPolling
    /\ currentGroupId = n.currentGroupId
    /\ timers = n.timers
    /\ inflight = n.inflight

(* window.location.pathname *)
location(s) == s.hist[s.hidx]

(* The guard that keeps a run inside the bounds. *)
WithinBounds(n) ==
    /\ BagCardinality(n.inflight) <= MaxInflight
    /\ Len(n.hist) <= MaxHistory
    /\ Cardinality(n.timers) <= MaxTimers

----------------------------------------------------------------------------
(* Pages: the content of #app.  Of what the data loads write into a page   *)
(* the model keeps the chat (.chat-messages: the group whose messages are  *)
(* shown); the lists of groups, mentorships and materials are markup only. *)
(* busy is whether the page's form is submitting (its button disabled),    *)
(* send the groups the sendMessage listeners attached to the page's send   *)
(* button and message input post to.                                       *)

Page(kind, group) ==
    [kind |-> kind, group |-> group, chat |-> "none", busy |-> FALSE,
     send |-> {}]

BlankPage == Page("blank", NoGroup)
LoginPage == Page("login", NoGroup)
RegisterPage == Page("register", NoGroup)
DashboardPage == Page("dashboard", NoGroup)
GroupPage(g) == Page("group", g)
NotFoundPage == Page("notfound", NoGroup)
ErrorPage == Page("error", NoGroup)

----------------------------------------------------------------------------
(* Fetches in flight.  kind is the ApiService method, group its group id,  *)
(* pending the fetches of a Promise.allSettled still open, ok those of     *)
(* them fulfilled with success whose data the model keeps (the messages),  *)
(* live whether the form that submitted it is still in the document.       *)

Parts == {"mentorships", "materials", "messages"}

Req(kind, group, pending) ==
    [kind |-> kind, group |-> group, pending |-> pending, ok |-> {},
     live |-> kind \in {"login", "register"}]

(* ApiClient.getAuthHeaders: the Authorization header, NoHeader if none.   *)
NoHeader == "none"
Bearer(t) == <<"Bearer", t>>

getAuthHeaders(s) ==
    IF Truthy(s.token) THEN Bearer(s.token) ELSE <<NoHeader>>

(* ApiClient.request up to the await of fetch *)
issue(s, kind, group) ==
    [s EXCEPT !.inflight = @ (+) SetToBag({Req(kind, group, {})}),
              !.sent = Append(@, getAuthHeaders(s))]

settle(s, r) == [s EXCEPT !.inflight = @ (-) SetToBag({r})]

(* Replacing #app's content takes every form out of the document. *)
detach(B) ==
    LET S == {[r EXCEPT !.live = FALSE] : r \in BagToSet(B)}
    IN  [x \in S |-> CopiesIn(x, B) + CopiesIn([x EXCEPT !.live = TRUE], B)]

(* The title is a function of currentRoute; reading it throws a TypeError  *)
(* while currentRoute is null, which no caller on that path catches.       *)
updateDocumentTitle(s) ==
    IF s.currentRoute = <<>> THEN [s EXCEPT !.uncaught = TRUE] ELSE s

renderPage(s, pg) ==
    updateDocumentTitle([s EXCEPT !.page = pg, !.inflight = detach(@)])

----------------------------------------------------------------------------
(* ApiClient *)

(* setToken that persists its argument only while nothing is persisted *)
setTokenKeepsFirst(s, t) ==
    [s EXCEPT !.token = t,
              !.ls = IF ~Truthy(t) THEN NoToken
                     ELSE IF s.ls = NoToken THEN t ELSE s.ls]

(* setToken that never removes the persisted token *)
setTokenNeverRemoves(s, t) ==
    [s EXCEPT !.token = t, !.ls = IF Truthy(t) THEN t ELSE @]

(* ls = NoToken stands for no auth_token key in localStorage. *)
setToken(s, t) ==
    [s EXCEPT !.token = t, !.ls = IF Truthy(t) THEN t ELSE NoToken]

----------------------------------------------------------------------------
(* UIManager: chat polling *)

(* The handle setInterval returns: one no live timer has. *)
newHandle(T) ==
    CHOOSE i \in 1..(Cardinality(T) + 1) : \A t \in T : t.id # i

stopChatPolling(s) ==
    IF s.chatPolling # NoTimer
    THEN [s EXCEPT !.timers = {t \in @ : t.id # s.chatPolling},
                   !.chatPolling = NoTimer]
    ELSE s

(* startChatPolling without its first line, the call of stopChatPolling *)
startChatPollingNoStop(s, g) ==
    LET h == newHandle(s.timers)
    IN  [s EXCEPT !.currentGroupId = g,
                  !.timers = @ \cup {[id |-> h, group |-> g]},
                  !.chatPolling = h]

startChatPolling(s, g) ==
    LET s1 == stopChatPolling(s)
        h == newHandle(s1.timers)
    IN  [s1 EXCEPT !.currentGroupId = g,
                   !.timers = @ \cup {[id |-> h, group |-> g]},
                   !.chatPolling = h]

renderChatMessages(s, g) ==
    IF s.page.kind = "group" THEN [s EXCEPT !.page.chat = g] ELSE s

----------------------------------------------------------------------------
(* Router: the route table and its matching *)

Route(pattern, name, requiresAuth, redirectIfAuth) ==
    [pattern |-> pattern, name |-> name, requiresAuth |-> requiresAuth,
     redirectIfAuth |-> redirectIfAuth, params |-> NoParams]

routes ==
    << Route(RootPath, "root", FALSE, NoPath),
       Route(LoginPath, "login", FALSE, DashboardPath),
       Route(RegisterPath, "register", FALSE, DashboardPath),
       Route(DashboardPath, "dashboard", TRUE, NoPath),
       Route(<<"group", ":id">>, "group", TRUE, NoPath) >>

NoRoute == Route(NoPath, "none", FALSE, NoPath)
NoMatch == [null |-> "null"]

(* /:\w+/ : a pattern segment that names a parameter *)
ParamSegments == {":id"}
IsParam(seg) == seg \in ParamSegments
ParamName(seg) == IF seg = ":id" THEN "id" ELSE seg

(* matchRoute with a star for the plus of ([^/]+): an empty segment       *)
(* matches a parameter too.                                                *)
matchRouteEmptySegment(pattern, path) ==
    IF /\ Len(pattern) = Len(path)
       /\ \A i \in 1..Len(pattern) :
            IsParam(pattern[i]) \/ pattern[i] = path[i]
    THEN LET P == {i \in 1..Len(pattern) : IsParam(pattern[i])}
         IN  [n \in {ParamName(pattern[i]) : i \in P} |->
                path[CHOOSE i \in P : ParamName(pattern[i]) = n]]
    ELSE NoMatch

(* The pattern as the regular expression ^...$ with ([^/]+) for each       *)
(* parameter: same number of segments, literal segments equal, parameter   *)
(* segments non-empty.                                                     *)
matchRoute(pattern, path) ==
    IF /\ Len(pattern) = Len(path)
       /\ \A i \in 1..Len(pattern) :
            IF IsParam(pattern[i]) THEN path[i] # "" ELSE pattern[i] = path[i]
    THEN LET P == {i \in 1..Len(pattern) : IsParam(pattern[i])}
         IN  [n \in {ParamName(pattern[i]) : i \in P} |->
                path[CHOOSE i \in P : ParamName(pattern[i]) = n
                        /\ \A j \in P : ParamName(pattern[j]) = n => j <= i]]
    ELSE NoMatch

findRoute(path) ==
    IF \E i \in 1..Len(routes) : routes[i].pattern = path
    THEN routes[CHOOSE i \in 1..Len(routes) : routes[i].pattern = path]
    ELSE LET M == {i \in 1..Len(routes) :
                        matchRoute(routes[i].pattern, path) # NoMatch}
         IN  IF M = {} THEN NoRoute
             ELSE LET i == CHOOSE i \in M : \A j \in M : i <= j
                  IN  [routes[i] EXCEPT
                          !.params = matchRoute(routes[i].pattern, path)]

----------------------------------------------------------------------------
(* Router: history, resolution and the route handlers *)

pushState(s, path) ==
    [s EXCEPT !.hist = Append(SubSeq(@, 1, s.hidx), path), !.hidx = @ + 1]

replaceState(s, path) == [s EXCEPT !.hist[s.hidx] = path]

(* render404 that also forgets the current route *)
render404ClearsRoute(s) ==
    renderPage([s EXCEPT !.currentRoute = NoPath, !.currentParams = NoParams],
               NotFoundPage)

render404(s) == renderPage(s, NotFoundPage)

renderError(s) == renderPage(s, ErrorPage)

renderLogin(s) == renderPage(s, LoginPage)

renderRegister(s) == renderPage(s, RegisterPage)

(* Up to the await of loadDashboardData: the page, then the fetch. *)
renderDashboard(s) == issue(renderPage(s, DashboardPage), "getGroups", NoGroup)

(* Up to the await of api.getGroup: the fetch alone, the page is untouched. *)
renderGroup(s, groupId) == issue(s, "getGroup", groupId)

RECURSIVE navigate(_, _, _)
RECURSIVE handleRoute(_, _)

(* redirectToDefaultRoute that redirects to the root path *)
redirectToRoot(s) == navigate(s, RootPath, TRUE)

redirectToDefaultRoute(s) ==
    navigate(s, IF s.isAuthenticated THEN DashboardPath ELSE LoginPath, TRUE)

handler(s, route) ==
    CASE route.name = "root" -> redirectToDefaultRoute(s)
      [] route.name = "login" -> renderLogin(s)
      [] route.name = "register" -> renderRegister(s)
      [] route.name = "dashboard" -> renderDashboard(s)
      [] route.name = "group" ->
            renderGroup(s, IF "id" \in DOMAIN route.params
                           THEN route.params["id"] ELSE NoGroup)

(* this.currentRoute = path; this.currentParams = route.params || {} *)
setCurrentRoute(s, path, route, params) ==
    [s EXCEPT !.currentRoute = route, !.currentParams = params,
              !.writes = Append(@, [path |-> path, currentRoute |-> route,
                                    currentParams |-> params,
                                    isAuthenticated |-> s.isAuthenticated])]

(* handleRoute that sets the current route before it looks the route up *)
handleRouteSetsFirst(s, path) ==
    LET route == findRoute(path)
        s1 == setCurrentRoute(s, path, path, route.params)
    IN  IF route.name = "none" THEN render404(s1)
        ELSE IF route.requiresAuth /\ ~s.isAuthenticated
        THEN navigate(s1, LoginPath, TRUE)
        ELSE IF route.redirectIfAuth # NoPath /\ s.isAuthenticated
        THEN navigate(s1, route.redirectIfAuth, TRUE)
        ELSE handler(s1, route)

handleRoute(s, path) ==
    LET route == findRoute(path)
    IN  IF route.name = "none" THEN render404(s)
        ELSE IF route.requiresAuth /\ ~s.isAuthenticated
        THEN navigate(s, LoginPath, TRUE)
        ELSE IF route.redirectIfAuth # NoPath /\ s.isAuthenticated
        THEN navigate(s, route.redirectIfAuth, TRUE)
        ELSE handler(setCurrentRoute(s, path, path, route.params), route)

(* navigate without its first statement, the return when path equals       *)
(* currentRoute                                                            *)
navigateAlways(s, path, replace) ==
    LET s0 == [s EXCEPT !.navigated = Append(@, path)]
    IN  handleRoute(IF replace THEN replaceState(s0, path)
                    ELSE pushState(s0, path), path)

navigate(s, path, replace) ==
    LET s0 == [s EXCEPT !.navigated = Append(@, path)]
    IN  IF path = s.currentRoute THEN s0
        ELSE handleRoute(IF replace THEN replaceState(s0, path)
                         ELSE pushState(s0, path), path)

handleAuthStateChange(s, authState) ==
    LET route == findRoute(location(s))
    IN  IF route.name = "none" THEN s
        ELSE IF route.requiresAuth /\ ~authState.isAuthenticated
        THEN navigate(s, LoginPath, TRUE)
        ELSE IF route.redirectIfAuth # NoPath /\ authState.isAuthenticated
        THEN navigate(s, route.redirectIfAuth, TRUE)
        ELSE s

----------------------------------------------------------------------------
(* AuthManager *)

authState(s) ==
    [user |-> s.user, isAuthenticated |-> s.isAuthenticated,
     isLoading |-> s.isLoading]

(* Subscribers other than the router's: "probe" returns, "thrower" throws. *)
Subscribers == {"probe", "thrower"}
throws(l) == l = "thrower"

addListener(s, l) == [s EXCEPT !.listeners = Append(@, l)]

(* The function addListener returns *)
unsubscribe(s, l) == [s EXCEPT !.listeners = SelectSeq(@, LAMBDA x : x # l)]

(* The two callbacks the router registers: "router" in                     *)
(* setupEventListeners, "initial" in handleInitialRoute.                   *)
callback(s, l, a) ==
    IF l \in Subscribers \/ a.isLoading THEN s
    ELSE IF l = "router" THEN handleAuthStateChange(s, a)
    ELSE handleRoute(unsubscribe(s, l), location(s))

(* The call of one subscriber, as the run records it. *)
called(s, l, a) ==
    [callback(s, l, a) EXCEPT !.calls = Append(@, [listener |-> l, state |-> a])]

(* notifyListeners without the try/catch around the callback: the first    *)
(* subscriber that throws ends the forEach.                                *)
RECURSIVE notifyFromNoCatch(_, _, _)
notifyFromNoCatch(s, L, i) ==
    IF i > Len(L) THEN s
    ELSE IF throws(L[i]) THEN called(s, L[i], authState(s))
    ELSE notifyFromNoCatch(called(s, L[i], authState(s)), L, i + 1)

(* forEach runs over the array as it was when the call began; each         *)
(* callback receives the fields as they are when it is called, and what it *)
(* throws is caught and logged.                                            *)
RECURSIVE notifyFrom(_, _, _)
notifyFrom(s, L, i) ==
    IF i > Len(L) THEN s
    ELSE notifyFrom(called(s, L[i], authState(s)), L, i + 1)

notifyListeners(s) == notifyFrom(s, s.listeners, 1)

setUser(s, u) ==
    notifyListeners([s EXCEPT !.user = u, !.isAuthenticated = TRUE])

(* clearAuth that goes back to loading *)
clearAuthRestartsLoading(s) ==
    notifyListeners(setToken([s EXCEPT !.user = NoUser,
                                       !.isAuthenticated = FALSE,
                                       !.isLoading = TRUE], NoToken))

clearAuth(s) ==
    notifyListeners(setToken([s EXCEPT !.user = NoUser,
                                       !.isAuthenticated = FALSE], NoToken))

(* window.dispatchEvent(new CustomEvent('auth:logout')): its one listener *)
dispatchAuthLogout(s) ==
    clearAuth([s EXCEPT !.dispatched = Append(@, "auth:logout")])

(* api.logout, clearAuth, then the router:navigate event to /login *)
logout(s) ==
    navigate(clearAuth(dispatchAuthLogout(setToken(s, NoToken))),
             LoginPath, FALSE)

(* The permission predicates.  A user is known by its id; an item is null  *)
(* (NoItem) or carries the id of its owner, creator or uploader, which may *)
(* be missing.                                                             *)
UserId(u) == u
NoItem == [null |-> "null"]
NoId == "undefined"
OwnerIds == Users \cup {"u2", NoId}
GroupItems == [owner_id : OwnerIds]
MentorshipItems == [created_by : OwnerIds]
MaterialItems == [uploaded_by : OwnerIds]

(* canManageGroup without the test of this.user: any visitor whose id is   *)
(* compared, also none                                                     *)
canManageGroupNoUserTest(s, group) ==
    IF group = NoItem THEN FALSE
    ELSE group.owner_id = (IF s.user = NoUser THEN NoId ELSE UserId(s.user))

canManageGroup(s, group) ==
    IF s.user = NoUser \/ group = NoItem THEN FALSE
    ELSE group.owner_id = UserId(s.user)

canDeleteMentorship(s, mentorship) ==
    IF s.user = NoUser \/ mentorship = NoItem THEN FALSE
    ELSE mentorship.created_by = UserId(s.user)

canDeleteMaterial(s, material) ==
    IF s.user = NoUser \/ material = NoItem THEN FALSE
    ELSE material.uploaded_by = UserId(s.user)

(* The form validation helpers.  A field value is the sequence of its      *)
(* characters; " " stands for the whitespace characters.                   *)

(* /^[^\s@]+@[^\s@]+\.[^\s@]+$/ : no whitespace, one @ with something      *)
(* before it, and after it a dot with something on both sides.             *)
validateEmail(email) ==
    \E i \in 2..Len(email) :
        /\ email[i] = "@"
        /\ \A j \in 1..Len(email) : j # i => email[j] \notin {"@", " "}
        /\ \E k \in (i + 2)..(Len(email) - 1) : email[k] = "."

validatePassword(password) == password # <<>> /\ Len(password) >= 6

(* String.prototype.trim *)
trim(str) ==
    LET N == {i \in 1..Len(str) : str[i] # " "}
    IN  IF N = {} THEN <<>>
        ELSE SubSeq(str, CHOOSE i \in N : \A j \in N : i <= j,
                         CHOOSE i \in N : \A j \in N : j <= i)

(* validateName that does not trim *)
validateNameNoTrim(name) == name # <<>> /\ Len(name) >= 2

validateName(name) == name # <<>> /\ Len(trim(name)) >= 2

(* AuthForms.validateForm: isValid.  Only the register form has a name     *)
(* field.                                                                  *)
validateForm(kind, data) ==
    /\ kind = "register" => validateName(data.name)
    /\ validateEmail(data.email)
    /\ validatePassword(data.password)

----------------------------------------------------------------------------
(* What the server, or the network, answers.  "ok" is a 2xx response with  *)
(* success true and the data the caller reads, "bad" a 2xx response with   *)
(* success false or without that data, "401" and "err" a response with     *)
(* that status or any other failure status, "net" a rejected fetch.        *)

Outcomes == {"ok", "bad", "401", "err", "net"}
Failed(out) == out \in {"401", "err", "net"}

(* The data of a 2xx login or register response. *)
Bodies == [user : Users \cup {NoUser}, token : Tokens \cup {NoToken}]
NoBody == [user |-> NoUser, token |-> NoToken]

(* error.status of what request throws: the status of the response, and    *)
(* none on the TypeError of a rejected fetch.                              *)
NoStatus == "undefined"
status(out) ==
    IF out = "401" THEN "401" ELSE IF out = "err" THEN "other" ELSE NoStatus

(* request taking every failure for a 401 *)
requestExpiresOnAnyFailure(s, out) ==
    IF Failed(out) THEN dispatchAuthLogout(setToken(s, NoToken)) ELSE s

(* request without the branch for status 401 *)
requestIgnores401(s, out) == s

(* ApiClient.request from the await of fetch on: the catch block. *)
request(s, out) ==
    IF out = "401" THEN dispatchAuthLogout(setToken(s, NoToken)) ELSE s

----------------------------------------------------------------------------
(* The continuations: each function from its await on. *)

(* validateToken without the else branch that clears a 2xx response with *)
(* no user *)
validateTokenKeepsBad(s, out, u) ==
    LET s1 == IF out = "ok" THEN setUser(s, u)
              ELSE IF out = "bad" THEN s ELSE clearAuth(request(s, out))
    IN  notifyListeners([s1 EXCEPT !.isLoading = FALSE])

(* AuthManager.validateToken after `await api.getProfile()` *)
validateToken(s, out, u) ==
    LET s1 == IF out = "ok" THEN setUser(s, u) ELSE clearAuth(request(s, out))
    IN  notifyListeners([s1 EXCEPT !.isLoading = FALSE])

(* AuthManager.init after `await this.validateToken()` *)
init(s, out, u) ==
    IF Failed(out) THEN clearAuth(validateToken(s, out, u))
    ELSE validateToken(s, out, u)

(* ApiService.login and ApiService.register after `await this.client.post` *)
apiLogin(s, out, body) ==
    IF out = "ok" /\ body.token # NoToken THEN setToken(s, body.token) ELSE s

(* AuthManager.login and AuthManager.register after `await api.login` *)
login(s, out, body) ==
    IF Failed(out) THEN request(s, out)
    ELSE LET s1 == apiLogin(s, out, body)
         IN  IF out = "ok" /\ body.user # NoUser THEN setUser(s1, body.user)
             ELSE s1

loginThrows(out, body) == out # "ok" \/ body.user = NoUser

(* The submit listener of the login and register forms after `await *)
(* auth.login`, with its finally. *)
submitted(s, r, out, body) ==
    LET s1 == login(s, out, body)
        s2 == IF loginThrows(out, body) THEN s1
              ELSE navigate(s1, DashboardPath, FALSE)
    IN  IF r.live THEN [s2 EXCEPT !.page.busy = FALSE] ELSE s2

(* Router.loadDashboardData after `await api.getGroups()`: it writes the   *)
(* list of groups, or an error text, into #groups-container if present.    *)
loadDashboardData(s, out) == request(s, out)

(* Router.loadGroupData up to its await: the three fetches of allSettled *)
loadGroupDataBegin(s, groupId) ==
    [s EXCEPT !.inflight =
                  @ (+) SetToBag({Req("groupData", groupId, Parts)}),
              !.sent = @ \o [i \in 1..Cardinality(Parts) |->
                                getAuthHeaders(s)]]

(* Router.loadGroupData after `await Promise.allSettled`: the lists of     *)
(* mentorships and materials if present, then the messages.                *)
loadGroupData(s, groupId, ok) ==
    IF "messages" \in ok THEN renderChatMessages(s, groupId) ELSE s

(* Router.renderGroup after `await api.getGroup(groupId)`, up to the await *)
(* of loadGroupData *)
renderGroupLoaded(s, groupId, out) ==
    IF out = "ok" THEN loadGroupDataBegin(renderPage(s, GroupPage(groupId)), groupId)
    ELSE renderError(request(s, out))

(* Router.setupChatHandlers: the listeners go on the send button and the   *)
(* message input the document holds at that moment, if it holds them.      *)
setupChatHandlers(s, groupId) ==
    IF s.page.kind = "group" THEN [s EXCEPT !.page.send = @ \cup {groupId}]
    ELSE s

(* Router.setupGroupHandlers: of its listeners the model keeps the chat's. *)
setupGroupHandlers(s, groupId) == setupChatHandlers(s, groupId)

(* Router.renderGroup after `await this.loadGroupData(groupId)` *)
renderGroupDone(s, groupId, ok) ==
    startChatPolling(setupGroupHandlers(loadGroupData(s, groupId, ok),
                                        groupId), groupId)

(* sendMessage that does not refresh after the send *)
sendMessageNoRefresh(s, groupId, out) ==
    IF Failed(out) THEN request(s, out) ELSE s

(* sendMessage, the listener of setupChatHandlers, after `await           *)
(* api.sendMessage`: the refresh up to its await, or the catch.            *)
sendMessage(s, groupId, out) ==
    IF Failed(out) THEN request(s, out)
    ELSE issue(s, "getMessages", groupId)

(* refreshChatMessages giving up the polling when the fetch fails *)
refreshChatMessagesGivesUp(s, groupId, out) ==
    IF out = "ok" THEN renderChatMessages(s, groupId)
    ELSE stopChatPolling(request(s, out))

(* UIManager.refreshChatMessages after `await api.getMessages`; what the   *)
(* fetch throws is caught and dropped.                                     *)
refreshChatMessages(s, groupId, out) ==
    IF out = "ok" THEN renderChatMessages(s, groupId) ELSE request(s, out)

----------------------------------------------------------------------------
(* Construction: the modules are evaluated in import order, api.js,        *)
(* auth.js, ui.js, router.js, on the page at initial path p0 with tok0     *)
(* under auth_token.                                                       *)

Loaded(p0, tok0) ==
    [user |-> NoUser, isAuthenticated |-> FALSE, isLoading |-> TRUE,
     listeners |-> <<>>, token |-> tok0, ls |-> tok0, currentRoute |-> NoPath,
     currentParams |-> NoParams, hist |-> <<p0>>, hidx |-> 1,
     page |-> BlankPage, chatPolling |-> NoTimer, currentGroupId |-> NoGroup,
     timers |-> {}, inflight |-> EmptyBag, calls |-> <<>>,
     uncaught |-> FALSE, sent |-> <<>>, dispatched |-> <<>>,
     writes |-> <<>>, navigated |-> <<>>]

(* AuthManager.init up to its await *)
initBegin(s) ==
    IF s.ls # NoToken THEN issue(setToken(s, s.ls), "getProfile", NoGroup)
    ELSE notifyListeners([s EXCEPT !.isLoading = FALSE])

setupEventListeners(s) == addListener(s, "router")

(* handleInitialRoute without the wait for auth.isLoading *)
handleInitialRouteNoWait(s) == handleRoute(s, location(s))

handleInitialRoute(s) ==
    IF s.isLoading THEN addListener(s, "initial")
    ELSE handleRoute(s, location(s))

Constructed(p0, tok0) ==
    handleInitialRoute(setupEventListeners(initBegin(Loaded(p0, tok0))))

(* The last event, when it was the construction, a response to            *)
(* AuthManager (getProfile, login, register), a 401, or a direct call of   *)
(* the polling functions: what it was, and its outcome or argument.        *)
Recorded ==
    {"load", "getProfile", "login", "register", "startChatPolling",
     "stopChatPolling", "setUser", "clearAuth"}

Event(op, out) ==
    IF op \in Recorded \/ out = "401"
    THEN [op |-> op, out |-> out, path |-> NoPath]
    ELSE [op |-> "-", out |-> "-", path |-> NoPath]

Init ==
    \E p0 \in Paths, tok0 \in Tokens \cup {NoToken} :
        /\ Is(Constructed(p0, tok0))
        /\ ev = Event("load", "-")

----------------------------------------------------------------------------
(* The events *)

Take(n, e) == WithinBounds(n) /\ Becomes(n) /\ ev' = e

(* router.navigate(path, replace): a click on an in-app link, a            *)
(* router:navigate event, or a call of the exported router.                *)
Navigate(path) ==
    /\ path \in Paths
    /\ Take(navigate(Cur, path, FALSE), Event("navigate", "-"))

(* popstate: the user goes back (d = -1) or forward (d = 1). *)
PopState(d) ==
    /\ hidx + d \in 1..Len(hist)
    /\ Take(handleRoute([Cur EXCEPT !.hidx = @ + d], hist[hidx + d]),
            Event("popstate", "-"))

(* submit on #login-form or #register-form, the fields valid: up to the    *)
(* await of auth.login or auth.register.                                   *)
Submit(kind) ==
    /\ page.kind = kind
    /\ ~page.busy
    /\ Take([issue(Cur, kind, NoGroup) EXCEPT !.page.busy = TRUE],
            Event("submit", "-"))

(* auth.logout() *)
Logout ==
    /\ TRUE
    /\ Take(logout(Cur), Event("logout", "-"))

(* setInterval's callback of a live timer: refreshChatMessages up to its   *)
(* await.                                                                  *)
Tick(t) ==
    /\ t \in timers
    /\ Take(issue(Cur, "getMessages", t.group),
            Event("tick", "-"))

(* The fetch of getProfile settles. *)
ProfileResponse(r, out, u) ==
    /\ r.kind = "getProfile"
    /\ (out = "ok") = (u # NoUser)
    /\ Take(init(settle(Cur, r), out, u), Event(r.kind, out))

(* The fetch of login or register settles. *)
LoginResponse(r, out, body) ==
    /\ r.kind \in {"login", "register"}
    /\ out # "ok" => body = NoBody
    /\ Take(submitted(settle(Cur, r), r, out, body),
            Event(r.kind,
                  IF out = "ok" /\ body.user = NoUser THEN "noUser"
                  ELSE IF out = "ok" /\ body.token = NoToken THEN "noToken"
                  ELSE out))

(* The fetch of getGroups settles: renderDashboard resumes. *)
GroupsResponse(r, out) ==
    /\ r.kind = "getGroups"
    /\ Take(loadDashboardData(settle(Cur, r), out),
            Event(r.kind, out))

(* The fetch of getGroup settles: renderGroup resumes. *)
GroupResponse(r, out) ==
    /\ r.kind = "getGroup"
    /\ Take(renderGroupLoaded(settle(Cur, r), r.group, out),
            Event(r.kind, out))

(* One of the three fetches of loadGroupData settles; with the last one    *)
(* loadGroupData and then renderGroup resume.                              *)
GroupDataResponse(r, part, out) ==
    /\ r.kind = "groupData"
    /\ part \in r.pending
    /\ LET s1 == request(settle(Cur, r), out)
           r1 == [r EXCEPT !.pending = @ \ {part},
                           !.ok = IF out = "ok" /\ part = "messages"
                                  THEN @ \cup {part} ELSE @]
       IN  Take(IF r1.pending # {}
                THEN [s1 EXCEPT !.inflight = @ (+) SetToBag({r1})]
                ELSE renderGroupDone(s1, r.group, r1.ok),
                Event(IF r1.pending # {} THEN "part" ELSE r.kind, out))

(* The fetch of a chat refresh settles. *)
MessagesResponse(r, out) ==
    /\ r.kind = "getMessages"
    /\ Take(refreshChatMessages(settle(Cur, r), r.group, out),
            Event(r.kind, out))

Pending == BagToSet(inflight)

Next ==
    \/ \E path \in Paths : Navigate(path)
    \/ \E d \in {-1, 1} : PopState(d)
    \/ \E kind \in {"login", "register"} : Submit(kind)
    \/ Logout
    \/ \E t \in timers : Tick(t)
    \/ \E r \in Pending, out \in Outcomes, u \in Users \cup {NoUser} :
            ProfileResponse(r, out, u)
    \/ \E r \in Pending, out \in Outcomes, body \in Bodies :
            LoginResponse(r, out, body)
    \/ \E r \in Pending, out \in Outcomes : GroupsResponse(r, out)
    \/ \E r \in Pending, out \in Outcomes : GroupResponse(r, out)
    \/ \E r \in Pending, out \in Outcomes, part \in Parts :
            GroupDataResponse(r, part, out)
    \/ \E r \in Pending, out \in Outcomes : MessagesResponse(r, out)

Spec == Init /\ [][Next]_vars

----------------------------------------------------------------------------
(* Direct calls of the exported ui: the polling functions alone, with the  *)
(* ticks of the timers they start and the responses to the refreshes.      *)

StartChatPolling(g) ==
    /\ g \in Groups
    /\ Take(startChatPolling(Cur, g), Event("startChatPolling", g))

StopChatPolling ==
    /\ TRUE
    /\ Take(stopChatPolling(Cur), Event("stopChatPolling", "-"))

PollNext ==
    \/ \E g \in Groups : StartChatPolling(g)
    \/ StopChatPolling
    \/ \E t \in timers : Tick(t)
    \/ \E r \in Pending, out \in Outcomes : MessagesResponse(r, out)

PollSpec == Init /\ [][PollNext]_vars

----------------------------------------------------------------------------
(* Direct calls of the exported auth: subscribers come and go, and the     *)
(* auth state is changed by setUser, clearAuth and the end of the token    *)
(* validation, while the router goes from route to route.                  *)

AddListener(l) ==
    /\ Len(listeners) < MaxListeners
    /\ \A i \in 1..Len(listeners) : listeners[i] # l
    /\ Take(addListener(Cur, l), Event("addListener", l))

Unsubscribe(l) ==
    /\ \E i \in 1..Len(listeners) : listeners[i] = l
    /\ Take(unsubscribe(Cur, l), Event("unsubscribe", l))

SetUser(u) ==
    /\ u \in Users
    /\ Take(setUser(Cur, u), Event("setUser", u))

ClearAuth ==
    /\ TRUE
    /\ Take(clearAuth(Cur), Event("clearAuth", "-"))

AuthNext ==
    \/ \E l \in Subscribers : AddListener(l)
    \/ \E l \in Subscribers : Unsubscribe(l)
    \/ \E u \in Users : SetUser(u)
    \/ ClearAuth
    \/ \E path \in Paths : Navigate(path)
    \/ \E r \in Pending, out \in Outcomes, u \in Users \cup {NoUser} :
            ProfileResponse(r, out, u)
    \/ \E r \in Pending, out \in Outcomes : GroupsResponse(r, out)
    \/ \E r \in Pending, out \in Outcomes : GroupResponse(r, out)

AuthSpec == Init /\ [][AuthNext]_vars

----------------------------------------------------------------------------
(* Direct calls of the exported router: navigate with any path and either  *)
(* replace flag, back and forward, and the responses to what the routes    *)
(* fetch.  Here the last event keeps the path navigate was called with.    *)

NavigateTo(path, replace) ==
    /\ path \in Paths
    /\ BagCardinality(navigate(Cur, path, replace).inflight) <= MaxRouterFetches
    /\ Take(navigate(Cur, path, replace),
            [op |-> IF replace THEN "replace" ELSE "navigate", out |-> "-",
             path |-> path])

Back(d) ==
    /\ hidx + d \in 1..Len(hist)
    /\ BagCardinality(handleRoute([Cur EXCEPT !.hidx = @ + d],
                                   hist[hidx + d]).inflight) <= MaxRouterFetches
    /\ Take(handleRoute([Cur EXCEPT !.hidx = @ + d], hist[hidx + d]),
            [op |-> "popstate", out |-> "-", path |-> hist[hidx + d]])

RouterNext ==
    \/ \E path \in Paths, replace \in BOOLEAN : NavigateTo(path, replace)
    \/ \E d \in {-1, 1} : Back(d)
    \/ \E r \in Pending, out \in Outcomes, u \in Users \cup {NoUser} :
            ProfileResponse(r, out, u)
    \/ \E r \in Pending, out \in Outcomes : GroupsResponse(r, out)
    \/ \E r \in Pending, out \in Outcomes : GroupResponse(r, out)
    \/ \E r \in Pending, out \in Outcomes, part \in Parts :
            GroupDataResponse(r, part, out)

RouterSpec == Init /\ [][RouterNext]_vars

----------------------------------------------------------------------------
(* Route lookup on its own: navigate, replacing, to each path of           *)
(* PathInputs, and the responses to what the routes fetch.                 *)

Visit(path) ==
    /\ path \in PathInputs
    /\ BagCardinality(navigate(Cur, path, TRUE).inflight) <= MaxRouterFetches
    /\ Take(navigate(Cur, path, TRUE),
            [op |-> "replace", out |-> "-", path |-> path])

FindNext ==
    \/ \E path \in PathInputs : Visit(path)
    \/ \E r \in Pending, out \in Outcomes, u \in Users \cup {NoUser} :
            ProfileResponse(r, out, u)
    \/ \E r \in Pending, out \in Outcomes : GroupsResponse(r, out)
    \/ \E r \in Pending, out \in Outcomes : GroupResponse(r, out)
    \/ \E r \in Pending, out \in Outcomes, part \in Parts :
            GroupDataResponse(r, part, out)

FindSpec == Init /\ [][FindNext]_vars

----------------------------------------------------------------------------
(* The chat of a displayed group page: the routes are visited, their       *)
(* fetches answered, the timer ticks, and the last event keeps how each    *)
(* refresh ended.                                                          *)

RefreshResponse(r, out) ==
    /\ r.kind = "getMessages"
    /\ Take(refreshChatMessages(settle(Cur, r), r.group, out),
            [op |-> r.kind, out |-> out, path |-> NoPath])

ChatNext ==
    \/ \E path \in Paths : Visit(path)
    \/ \E t \in timers : Tick(t)
    \/ \E r \in Pending, out \in Outcomes : RefreshResponse(r, out)
    \/ \E r \in Pending, out \in Outcomes, u \in Users \cup {NoUser} :
            ProfileResponse(r, out, u)
    \/ \E r \in Pending, out \in Outcomes : GroupsResponse(r, out)
    \/ \E r \in Pending, out \in Outcomes : GroupResponse(r, out)
    \/ \E r \in Pending, out \in Outcomes, part \in Parts :
            GroupDataResponse(r, part, out)

ChatSpec == Init /\ [][ChatNext]_vars

----------------------------------------------------------------------------
(* The chat with its send button: as above, and a message with content is  *)
(* sent by one of the listeners on the displayed page (a click on the      *)
(* button, or Enter in the input, which the disabled button does not       *)
(* stop), and the send is answered.                                        *)

SendMessage(g) ==
    /\ g \in page.send
    /\ Take(issue(Cur, "sendMessage", g),
            [op |-> "send", out |-> "-", path |-> NoPath])

SendResponse(r, out) ==
    /\ r.kind = "sendMessage"
    /\ Take(sendMessage(settle(Cur, r), r.group, out),
            [op |-> r.kind, out |-> out, path |-> NoPath])

SendNext ==
    \/ \E g \in Groups : SendMessage(g)
    \/ \E r \in Pending, out \in Outcomes : SendResponse(r, out)
    \/ \E path \in Paths : Visit(path)
    \/ \E t \in timers : Tick(t)
    \/ \E r \in Pending, out \in Outcomes : RefreshResponse(r, out)
    \/ \E r \in Pending, out \in Outcomes, u \in Users \cup {NoUser} :
            ProfileResponse(r, out, u)
    \/ \E r \in Pending, out \in Outcomes : GroupsResponse(r, out)
    \/ \E r \in Pending, out \in Outcomes : GroupResponse(r, out)
    \/ \E r \in Pending, out \in Outcomes, part \in Parts :
            GroupDataResponse(r, part, out)

SendSpec == Init /\ [][SendNext]_vars

----------------------------------------------------------------------------
(* Direct calls of the exported api's client: setToken with any argument,  *)
(* while the application signs in and goes from route to route.            *)

SetToken(t) ==
    /\ t \in TokenInputs
    /\ Take(setToken(Cur, t), [op |-> "setToken", out |-> t, path |-> NoPath])

ClientNext ==
    \/ \E t \in TokenInputs : SetToken(t)
    \/ \E path \in Paths : Navigate(path)
    \/ \E kind \in {"login", "register"} : Submit(kind)
    \/ \E r \in Pending, out \in Outcomes, body \in Bodies :
            LoginResponse(r, out, body)
    \/ \E r \in Pending, out \in Outcomes, u \in Users \cup {NoUser} :
            ProfileResponse(r, out, u)
    \/ \E r \in Pending, out \in Outcomes : GroupsResponse(r, out)
    \/ \E r \in Pending, out \in Outcomes : GroupResponse(r, out)

ClientSpec == Init /\ [][ClientNext]_vars

----------------------------------------------------------------------------
(* The login and register forms submitted with any field values.           *)

Str(n, c) == [i \in 1..n |-> c]

NameInputs == {<<>>, <<"a">>, <<" ", "a", " ">>, <<"a", "a">>,
               <<" ", "a", "a", " ">>}
EmailInputs ==
    {<<>>, <<"a", "@", "a", ".", "a">>, <<"a", "@", "a">>,
     <<"@", "a", ".", "a">>, <<"a", "@", ".", "a">>, <<"a", "@", "a", ".">>,
     <<"a", " ", "@", "a", ".", "a">>, <<"a", "@", "@", "a", ".", "a">>,
     <<"a", ".", "a", "@", "a", ".", "a", ".", "a">>}
PasswordInputs == {<<>>, Str(5, "a"), Str(6, "a"), Str(6, " "), Str(7, "a")}
FormData == [name : NameInputs, email : EmailInputs, password : PasswordInputs]

(* The submit listener of #login-form or #register-form up to its await,   *)
(* or to its return when the validation fails.                             *)
submit(s, kind, data) ==
    IF validateForm(kind, data)
    THEN [issue(s, kind, NoGroup) EXCEPT !.page.busy = TRUE]
    ELSE s

SubmitWith(kind, data) ==
    /\ page.kind = kind
    /\ ~page.busy
    /\ Take(submit(Cur, kind, data),
            [op |-> "submit",
             out |-> IF validateForm(kind, data) THEN "valid" ELSE "invalid",
             path |-> NoPath])

FormNext ==
    \/ \E kind \in {"login", "register"}, data \in FormData :
            SubmitWith(kind, data)
    \/ \E path \in Paths : Navigate(path)
    \/ Logout
    \/ \E r \in Pending, out \in Outcomes, body \in Bodies :
            LoginResponse(r, out, body)
    \/ \E r \in Pending, out \in Outcomes, u \in Users \cup {NoUser} :
            ProfileResponse(r, out, u)
    \/ \E r \in Pending, out \in Outcomes : GroupsResponse(r, out)
    \/ \E r \in Pending, out \in Outcomes : GroupResponse(r, out)

FormSpec == Init /\ [][FormNext]_vars

----------------------------------------------------------------------------
(* Clicks on the in-app links of the page, a link being an <a> whose href  *)
(* is one of the paths, with the modifier keys that are held; and the      *)
(* responses to what the routes fetch.  The last event keeps the keys (by  *)
(* name), the href, and whether the listener prevented the default action  *)
(* ("click") or left the click to the browser ("clickPassed"), which, a    *)
(* modifier held, does not load the link in this document.                 *)

KeyNames == {"none", "ctrl", "meta", "shift", "alt", "shift+alt"}
Held(keys) ==
    CASE keys = "none" -> {}
      [] keys = "shift+alt" -> {"shift", "alt"}
      [] OTHER -> {keys}

(* link && !e.ctrlKey && !e.metaKey && !e.shiftKey *)
intercepts(held) ==
    "ctrl" \notin held /\ "meta" \notin held /\ "shift" \notin held

(* The click listener of the document, the target inside such a link. *)
click(s, href, held) ==
    IF intercepts(held) THEN navigate(s, href, FALSE) ELSE s

Click(href, keys) ==
    /\ href \in Paths
    /\ BagCardinality(click(Cur, href, Held(keys)).inflight)
            <= MaxRouterFetches
    /\ Take(click(Cur, href, Held(keys)),
            [op |-> IF intercepts(Held(keys)) THEN "click" ELSE "clickPassed",
             out |-> keys, path |-> href])

ClickNext ==
    \/ \E href \in Paths, keys \in KeyNames : Click(href, keys)
    \/ \E r \in Pending, out \in Outcomes, u \in Users \cup {NoUser} :
            ProfileResponse(r, out, u)
    \/ \E r \in Pending, out \in Outcomes : GroupsResponse(r, out)
    \/ \E r \in Pending, out \in Outcomes : GroupResponse(r, out)
    \/ \E r \in Pending, out \in Outcomes, part \in Parts :
            GroupDataResponse(r, part, out)

ClickSpec == Init /\ [][ClickNext]_vars

----------------------------------------------------------------------------
(* The chats of two groups: as the chat above, the user going from one     *)
(* group's page to the other's while the timer ticks and refreshes are in  *)
(* flight.                                                                 *)

GroupPaths == {GroupPath(g) : g \in Groups}

GroupsNext ==
    \/ \E path \in GroupPaths \cup {DashboardPath} : Visit(path)
    \/ \E t \in timers : Tick(t)
    \/ \E r \in Pending, out \in Outcomes : RefreshResponse(r, out)
    \/ \E r \in Pending, out \in Outcomes, u \in Users \cup {NoUser} :
            ProfileResponse(r, out, u)
    \/ \E r \in Pending, out \in Outcomes : GroupsResponse(r, out)
    \/ \E r \in Pending, out \in Outcomes : GroupResponse(r, out)
    \/ \E r \in Pending, out \in Outcomes, part \in Parts :
            GroupDataResponse(r, part, out)

GroupsSpec == Init /\ [][GroupsNext]_vars

----------------------------------------------------------------------------
(* The chat with the order of its refreshes.  The requests of a group are  *)
(* alike, so here the last event keeps, in path, the refreshes in flight   *)
(* in the order they were issued, each by its origin ("tick", the timer;   *)
(* "send", the refresh that follows a send; "old", one issued before a     *)
(* send's refresh that has since been displayed), and in out what the chat *)
(* displays: "fresh", the last displayed send's refresh or a refresh       *)
(* issued after it; "stale", a refresh issued before it; "-" while no      *)
(* send's refresh has been displayed on the page.  Any other event (a      *)
(* route resolved, a page rendered) starts the record anew: the refreshes  *)
(* then in flight are older than all it will hold.                         *)

ChatOps == {"tick", "send", "sendMessage", "getMessages"}
Order == IF ev.op \in ChatOps THEN ev.path ELSE <<>>
Shown == IF ev.op \in ChatOps THEN ev.out ELSE "-"

TickInOrder(t) ==
    /\ t \in timers
    /\ Take(issue(Cur, "getMessages", t.group),
            [op |-> "tick", out |-> Shown, path |-> Append(Order, "tick")])

SendMessageInOrder(g) ==
    /\ g \in page.send
    /\ Take(issue(Cur, "sendMessage", g),
            [op |-> "send", out |-> Shown, path |-> Order])

SendResponseInOrder(r, out) ==
    /\ r.kind = "sendMessage"
    /\ LET n == sendMessage(settle(Cur, r), r.group, out)
       IN  Take(n, [op |-> r.kind,
                    out |-> IF n.page.kind = "group" THEN Shown ELSE "-",
                    path |-> IF Failed(out) THEN Order
                             ELSE Append(Order, "send")])

(* The i-th refresh in flight settles; i = 0 is one the record does not    *)
(* hold.  It is displayed when refreshChatMessages writes the chat: were   *)
(* the chat empty, it would not be after the call.                         *)
RefreshResponseInOrder(r, i, out) ==
    /\ r.kind = "getMessages"
    /\ i \in 0..Len(Order)
    /\ i = 0 => CopiesIn(r, inflight) > Len(Order)
    /\ LET n == refreshChatMessages(settle(Cur, r), r.group, out)
           origin == IF i = 0 THEN "old" ELSE Order[i]
           displayed ==
               refreshChatMessages([Cur EXCEPT !.page.chat = "none"],
                                   r.group, out).page.chat # "none"
           rest == [k \in 1..(Len(Order) - (IF i = 0 THEN 0 ELSE 1)) |->
                       IF k < i
                       THEN IF displayed /\ origin = "send" THEN "old"
                            ELSE Order[k]
                       ELSE IF i = 0 THEN Order[k] ELSE Order[k + 1]]
       IN  Take(n, [op |-> r.kind,
                    out |-> IF n.page.kind # "group" THEN "-"
                            ELSE IF ~displayed THEN Shown
                            ELSE IF origin = "send" THEN "fresh"
                            ELSE IF Shown = "-" THEN "-"
                            ELSE IF origin = "old" THEN "stale"
                            ELSE "fresh",
                    path |-> rest])

OrderNext ==
    \/ \E t \in timers : TickInOrder(t)
    \/ \E g \in Groups : SendMessageInOrder(g)
    \/ \E r \in Pending, out \in Outcomes : SendResponseInOrder(r, out)
    \/ \E r \in Pending, i \in 0..MaxInflight, out \in Outcomes :
            RefreshResponseInOrder(r, i, out)
    \/ \E path \in Paths : Visit(path)
    \/ \E r \in Pending, out \in Outcomes, u \in Users \cup {NoUser} :
            ProfileResponse(r, out, u)
    \/ \E r \in Pending, out \in Outcomes : GroupsResponse(r, out)
    \/ \E r \in Pending, out \in Outcomes : GroupResponse(r, out)
    \/ \E r \in Pending, out \in Outcomes, part \in Parts :
            GroupDataResponse(r, part, out)

OrderSpec == Init /\ [][OrderNext]_vars

----------------------------------------------------------------------------
(* Properties *)

ProtectedKinds == {"dashboard", "group"}
IsGroupPath(path) == Len(path) = 2 /\ path[1] = "group"
Anonymous == ~isAuthenticated /\ ~isLoading

(* C1: while the auth state is anonymous (not authenticated, not loading)  *)
(* the page shown in #app is never the dashboard page or a group page.     *)
C1_NoProtectedPageWhileAnonymous ==
    Anonymous => page.kind \notin ProtectedKinds

(* C2: in every state where the route the router displays is not           *)
(* /group/:id, ui.chatPolling is null and no interval timer is live, so    *)
(* that no further periodic getMessages is issued.                         *)
C2_NoPollingOffGroupRoute ==
    ~IsGroupPath(currentRoute) => chatPolling = NoTimer /\ timers = {}

(* C3: after any sequence of startChatPolling and stopChatPolling calls at *)
(* most one interval timer is live, and right after startChatPolling(g),   *)
(* whatever was polled before, exactly one is, it polls g, and it is the   *)
(* one ui.chatPolling holds.                                               *)
C3_OneTimer ==
    /\ Cardinality(timers) <= 1
    /\ ev.op = "startChatPolling" =>
          /\ timers = {[id |-> chatPolling, group |-> ev.out]}
          /\ chatPolling # NoTimer
          /\ currentGroupId = ev.out

(* C3, its case: startChatPolling("g2") has just run while a refresh for   *)
(* "g1", issued by the timer of an earlier startChatPolling("g1"), is      *)
(* still in flight.                                                        *)
C3_Witness ==
    /\ ev = Event("startChatPolling", "g2")
    /\ \E r \in Pending : r.kind = "getMessages" /\ r.group = "g1"
    /\ \E t \in timers : t.group = "g2"

(* C4: a getGroup fetch that completes, with any outcome but 401, after    *)
(* the router has resolved another route changes neither the displayed     *)
(* page nor the polling timers.                                            *)
C4_StaleGroupFetchHasNoEffect ==
    [][\A r \in Pending, out \in Outcomes \ {"401"} :
          GroupResponse(r, out) /\ currentRoute # GroupPath(r.group)
              => page' = page /\ timers' = timers /\ chatPolling' = chatPolling
      ]_vars

(* C5: isAuthenticated is true if and only if a user is held and a token   *)
(* is held, by the client and under auth_token.                            *)
C5_AuthenticatedIffUserAndToken ==
    isAuthenticated <=> (user # NoUser /\ token # NoToken /\ ls # NoToken)

C7_SessionLossShowsLogin ==
    [][isAuthenticated /\ ~isAuthenticated' /\ page.kind \in ProtectedKinds
          => page'.kind = "login" /\ hist'[hidx'] = LoginPath]_vars

(* C8 as claimed: while auth.isLoading is true no route is resolved,       *)
(* whatever event arrives: no page is rendered, no handler has set the     *)
(* current route and the history is as the browser loaded it.              *)
C8_NoRouteWhileLoading ==
    isLoading => page = BlankPage /\ currentRoute = NoPath /\ Len(hist) = 1

(* What a navigation event does to the router, and nothing else does while *)
(* loading: a call of navigate (also the one at the end of a completed     *)
(* login or of logout) or a popstate.                                      *)
NavigationEvent ==
    \/ \E path \in Paths : Navigate(path)
    \/ \E d \in {-1, 1} : PopState(d)
    \/ Logout
    \/ \E r \in Pending, body \in Bodies : LoginResponse(r, "ok", body)

(* C8 as amended: while auth.isLoading is true the router resolves no      *)
(* route of its own: the initial resolution waits (after construction no   *)
(* page is rendered, no route is current, nothing is redirected), and      *)
(* until loading ends no auth change and no response redirects, only a     *)
(* navigation event changes the current route or the history.              *)
C8_InitialRouteWaits ==
    /\ [](ev.op = "load" /\ isLoading =>
            page = BlankPage /\ currentRoute = NoPath /\ Len(hist) = 1)
    /\ [][isLoading /\ isLoading' /\ ~NavigationEvent =>
            /\ currentRoute' = currentRoute
            /\ hist' = hist /\ hidx' = hidx]_vars

(* C8, its case: a session obtained by a login while the persisted token   *)
(* is still being validated is lost to a 401 on the dashboard's fetch; the *)
(* auth change reaches the router during loading and redirects nothing.    *)
C8_Witness ==
    /\ isLoading /\ ev = Event("getGroups", "401")
    /\ ~isAuthenticated /\ currentRoute = DashboardPath

(* C9: AuthManager is loading exactly while the profile fetch is in        *)
(* flight; when it settles loading ends, with a user on success            *)
(* authenticated as that user and the token untouched, on every other      *)
(* outcome anonymous with the token removed from the client and from       *)
(* localStorage; constructed with no persisted token it is anonymous and   *)
(* not loading.                                                            *)
C9_Startup ==
    /\ [](isLoading <=> \E r \in Pending : r.kind = "getProfile")
    /\ [](ev.op = "load" /\ ls = NoToken => Anonymous /\ user = NoUser)
    /\ [][\A r \in Pending, out \in Outcomes, u \in Users \cup {NoUser} :
            ProfileResponse(r, out, u) =>
                /\ ~isLoading'
                /\ out = "ok" =>
                      /\ isAuthenticated' /\ user' = u
                      /\ token' = token /\ ls' = ls
                /\ out # "ok" =>
                      /\ ~isAuthenticated' /\ user' = NoUser
                      /\ token' = NoToken /\ ls' = NoToken]_vars

(* C9, its case: the profile fetch of a persisted token has just succeeded. *)
C9_Witness ==
    /\ ev = Event("getProfile", "ok")
    /\ isAuthenticated /\ user \in Users /\ ~isLoading
    /\ token \in Tokens /\ ls = token

(* C10: when login or register receives a success response with a user and *)
(* a token, the step ends authenticated as that user, the token held by    *)
(* the client and persisted, and the router on the rendered dashboard.     *)
C10_LoginEndsOnDashboard ==
    [][\A r \in Pending, body \in Bodies :
          /\ LoginResponse(r, "ok", body)
          /\ body.user # NoUser /\ body.token # NoToken
          => /\ isAuthenticated' /\ user' = body.user
             /\ token' = body.token /\ ls' = body.token
             /\ page'.kind = "dashboard"
             /\ currentRoute' = DashboardPath]_vars

(* C11: when login or register receives a success response whose data     *)
(* lacks the user or lacks the token, the call fails with an error and the *)
(* auth state does not become authenticated.                               *)
C11_MalformedLoginFails ==
    [][\A r \in Pending, body \in Bodies :
          /\ LoginResponse(r, "ok", body)
          /\ body.user = NoUser \/ body.token = NoToken
          => /\ loginThrows("ok", body)
             /\ isAuthenticated' => isAuthenticated]_vars

(* C12: from any auth state and any displayed route, when logout() has     *)
(* returned the token is cleared from the client and from localStorage,    *)
(* no user is held, isAuthenticated is false and the router displays the   *)
(* login route.                                                            *)
C12_LogoutEndsOnLogin ==
    [][Logout =>
          /\ token' = NoToken /\ ls' = NoToken
          /\ user' = NoUser /\ ~isAuthenticated'
          /\ page'.kind = "login" /\ currentRoute' = LoginPath]_vars

(* One notification of the subscribers registered in s: each of them once, *)
(* in registration order, with the auth state of s.                        *)
Round(s) ==
    [i \in 1..Len(s.listeners) |->
        [listener |-> s.listeners[i], state |-> authState(s)]]

(* C13: setUser, clearAuth and the end of the token validation each call   *)
(* every subscriber registered at that moment exactly once, within the     *)
(* operation, in registration order and with the current user,             *)
(* isAuthenticated and isLoading, also the subscribers registered after    *)
(* one that throws.                                                        *)
C13_EverySubscriberOnce ==
    /\ \A u \in Users :
          setUser(Cur, u).calls =
              Round([Cur EXCEPT !.user = u, !.isAuthenticated = TRUE])
    /\ clearAuth(Cur).calls =
          Round([Cur EXCEPT !.user = NoUser, !.isAuthenticated = FALSE])
    /\ \A r \in Pending : r.kind = "getProfile" =>
          LET s == [Cur EXCEPT !.user = NoUser, !.isAuthenticated = FALSE]
          IN  validateToken(settle(Cur, r), "bad", NoUser).calls =
                  Round(s) \o Round([s EXCEPT !.isLoading = FALSE])

(* C13, its case: setUser has just notified three subscribers, the one     *)
(* that throws registered before the probe.                                *)
C13_Witness ==
    /\ ev.op = "setUser" /\ isAuthenticated
    /\ Len(listeners) = 3
    /\ listeners[2] = "thrower" /\ listeners[3] = "probe"

(* The paths a redirect of handleRoute leads to *)
RedirectTargets == {LoginPath, DashboardPath}

(* C14: navigate(path, replace) with path equal to currentRoute changes    *)
(* nothing: no history entry, no handler (no page, no fetch), currentRoute *)
(* and currentParams as before.  With any other path it makes one history  *)
(* update of its own, replacing the current entry when replace is true and *)
(* pushing after it otherwise, and resolves the route on that history: the *)
(* entry then holds the path, or the target a redirect replaced it with.   *)
C14_NavigateSamePathNoOp ==
    [][ev'.op \in {"navigate", "replace"} =>
          LET path == ev'.path
              replace == ev'.op = "replace"
          IN  IF path = currentRoute
              THEN UNCHANGED <<user, isAuthenticated, isLoading, listeners,
                               token, ls, currentRoute, currentParams, hist,
                               hidx, page, chatPolling, currentGroupId,
                               timers, inflight>>
              ELSE /\ Becomes(handleRoute(IF replace
                                           THEN replaceState(Cur, path)
                                           ELSE pushState(Cur, path), path))
                   /\ hidx' = IF replace THEN hidx ELSE hidx + 1
                   /\ Len(hist') = IF replace THEN Len(hist) ELSE hidx + 1
                   /\ \A i \in 1..Len(hist') : i # hidx' => hist'[i] = hist[i]
                   /\ hist'[hidx'] \in {path} \cup RedirectTargets]_vars

(* C14, its case: navigate('/login') was called while currentRoute was     *)
(* '/login' with the 404 page displayed, and the 404 page is still there.  *)
C14_Witness ==
    /\ ev.op = "navigate" /\ ev.path = LoginPath
    /\ currentRoute = LoginPath /\ page = NotFoundPage

(* C15: resolving a path no route matches, after navigate, on popstate or  *)
(* on the initial load before any route was resolved, renders the          *)
(* not-found page and performs no navigation: currentRoute and             *)
(* currentParams stay as they were, and the history is only what navigate  *)
(* itself pushed or replaced before resolving.                             *)
C15_NotFound ==
    /\ [](ev.op = "load" /\ ~isLoading /\ findRoute(hist[1]) = NoRoute =>
            /\ page = NotFoundPage /\ currentRoute = NoPath
            /\ currentParams = NoParams /\ hist = <<hist[1]>> /\ hidx = 1)
    /\ [][(/\ \E i \in 1..Len(listeners) : listeners[i] = "initial"
           /\ isLoading /\ ~isLoading'
           /\ findRoute(hist[hidx]) = NoRoute) =>
            /\ page' = NotFoundPage
            /\ currentRoute' = currentRoute /\ currentParams' = currentParams
            /\ hist' = hist /\ hidx' = hidx]_vars
    /\ [][(/\ ev'.op \in {"navigate", "replace", "popstate"}
           /\ findRoute(ev'.path) = NoRoute) =>
            /\ page' = NotFoundPage
            /\ currentRoute' = currentRoute /\ currentParams' = currentParams
            /\ hist'[hidx'] = ev'.path
            /\ ev'.op = "popstate" => hist' = hist
            /\ ev'.op = "replace" => hist' = [hist EXCEPT ![hidx] = ev'.path]
            /\ ev'.op = "navigate" =>
                  hist' = Append(SubSeq(hist, 1, hidx), ev'.path)]_vars

(* C15, its case: back to an entry whose path no route matches, with the   *)
(* dashboard the current route.                                            *)
C15_Witness ==
    /\ ev.op = "popstate" /\ ev.path = UnknownPath
    /\ page = NotFoundPage /\ currentRoute = DashboardPath

(* C16: resolving a route that requires auth while anonymous, reached by   *)
(* navigate or by popstate, ends with the browser path /login and the      *)
(* login page displayed, the redirect having replaced the entry being      *)
(* resolved, not pushed one after it.                                      *)
C16_ProtectedRouteRedirectsToLogin ==
    [][(/\ ev'.op \in {"navigate", "replace", "popstate"}
        /\ Anonymous
        /\ findRoute(ev'.path).requiresAuth
        /\ ev'.op = "popstate" \/ ev'.path # currentRoute) =>
          /\ page'.kind = "login"
          /\ hist'[hidx'] = LoginPath
          /\ Len(hist') = IF ev'.op = "navigate" THEN hidx + 1 ELSE Len(hist)
          /\ hidx' = IF ev'.op = "navigate" THEN hidx + 1
                     ELSE IF ev'.op = "replace" THEN hidx ELSE hidx'
      ]_vars

(* C17: resolving /login or /register while authenticated never invokes    *)
(* the route's handler (the guest page is not rendered, the route does not *)
(* become current) and redirects to /dashboard: the browser path is        *)
(* /dashboard and the dashboard is the current route.                      *)
C17_GuestRouteRedirectsToDashboard ==
    [][(/\ ev'.op \in {"navigate", "replace", "popstate"}
        /\ isAuthenticated
        /\ findRoute(ev'.path).redirectIfAuth # NoPath
        /\ ev'.op = "popstate" \/ ev'.path # currentRoute) =>
          /\ page'.kind \notin {"login", "register"} \/ page' = page
          /\ currentRoute' = DashboardPath
          /\ hist'[hidx'] = DashboardPath]_vars

(* C18: when the data fetch of a matched, permitted route fails, the       *)
(* router displays the generic error page, and a later navigate to a valid *)
(* route still renders that route.                                         *)
C18_HandlerFailureShowsErrorPage ==
    /\ [][\A r \in Pending, out \in Outcomes \ {"ok"} :
            (GroupsResponse(r, out) \/ GroupResponse(r, out))
            /\ isAuthenticated' => page' = ErrorPage]_vars
    /\ [][(/\ ev'.op \in {"navigate", "replace"}
           /\ page = ErrorPage /\ isAuthenticated
           /\ findRoute(ev'.path).name \in {"dashboard", "group"}) =>
            page' # ErrorPage \/ \E r \in BagToSet(inflight') : r \notin Pending
         ]_vars

(* The routes a path matches as a pattern: as many segments, the literal   *)
(* ones equal, and a non-empty segment for each parameter.                 *)
Matching(path) ==
    {i \in 1..Len(routes) :
        /\ Len(routes[i].pattern) = Len(path)
        /\ \A k \in 1..Len(path) :
              IF routes[i].pattern[k] = ":id" THEN path[k] # ""
              ELSE routes[i].pattern[k] = path[k]}

(* C19: findRoute returns the route whose pattern equals the path          *)
(* literally when there is one, with no parameters; otherwise the first    *)
(* route in declaration order whose pattern matches, each parameter bound  *)
(* to the one non-empty segment in its place; otherwise no route.  For the *)
(* application's table /group/x is the group route with id = x, and        *)
(* /group/, /group/a/b and /dashboard/ are no route.                       *)
C19_FindRoute ==
    /\ \A path \in PathInputs :
          LET r == findRoute(path)
              E == {i \in 1..Len(routes) : routes[i].pattern = path}
          IN  IF E # {}
              THEN \E i \in E : r = routes[i] /\ r.params = NoParams
              ELSE IF Matching(path) = {} THEN r = NoRoute
              ELSE \E i \in Matching(path) :
                      /\ \A j \in Matching(path) : i <= j
                      /\ r.name = routes[i].name
                      /\ r.pattern = routes[i].pattern
                      /\ DOMAIN r.params =
                            {"id" : k \in {k \in 1..Len(path) :
                                              routes[i].pattern[k] = ":id"}}
                      /\ \A k \in 1..Len(path) :
                            routes[i].pattern[k] = ":id" =>
                                r.params["id"] = path[k]
    /\ \A g \in Groups :
          /\ findRoute(GroupPath(g)).name = "group"
          /\ findRoute(GroupPath(g)).params = [n \in {"id"} |-> g]
    /\ findRoute(<<"group", "">>) = NoRoute
    /\ findRoute(<<"group", "a", "b">>) = NoRoute
    /\ findRoute(<<"dashboard", "">>) = NoRoute
    /\ ev.op = "replace" /\ currentRoute = ev.path =>
          currentParams = findRoute(ev.path).params

(* C19, its case: /group/g2 was resolved to the group route with id = g2.  *)
C19_Witness ==
    /\ ev.op = "replace" /\ ev.path = GroupPath("g2")
    /\ currentRoute = GroupPath("g2")
    /\ currentParams = [n \in {"id"} |-> "g2"]

(* C20: a message fetch of a polling tick that fails, by the network or    *)
(* with any HTTP status, stops nothing: the timers and ui.chatPolling are  *)
(* as before, nothing is thrown out of the tick, and every live timer's    *)
(* next tick issues a fetch whose success writes its messages into the     *)
(* chat that is displayed.                                                 *)
C20_PollingSurvivesFailure ==
    /\ [][ev'.op = "getMessages" /\ ev'.out # "ok" =>
            timers' = timers /\ chatPolling' = chatPolling]_vars
    /\ [](\A r \in Pending, out \in Outcomes : r.kind = "getMessages" =>
            ~refreshChatMessages(settle(Cur, r), r.group, out).uncaught)
    /\ [](\A t \in timers :
            LET r == Req("getMessages", t.group, {})
                s == issue(Cur, "getMessages", t.group)
            IN  /\ BagIn(r, s.inflight)
                /\ page.kind = "group" =>
                      refreshChatMessages(settle(s, r), t.group,
                                          "ok").page.chat = t.group)

(* C20, its case: a refresh of the displayed chat has just failed, not by  *)
(* a 401, and the timer that issued it is live.                            *)
C20_Witness ==
    /\ ev.op = "getMessages" /\ ev.out \in {"err", "net"}
    /\ page.kind = "group" /\ page.chat = page.group
    /\ \E t \in timers : t.id = chatPolling /\ t.group = page.group

(* C21: stopChatPolling, called in any state, leaves no live timer, no     *)
(* interval handle in ui.chatPolling and no group id in ui.currentGroupId, *)
(* and a second call right after the first changes nothing.                *)
C21_StopIsIdempotentAndTotal ==
    /\ stopChatPolling(stopChatPolling(Cur)) = stopChatPolling(Cur)
    /\ stopChatPolling(Cur).timers = {}
    /\ stopChatPolling(Cur).chatPolling = NoTimer
    /\ stopChatPolling(Cur).currentGroupId = NoGroup

(* C22: when a send of a message completes with success, a refresh of     *)
(* that group's messages is issued in the same step, and the polling       *)
(* timers and ui.chatPolling are as before; when the send fails, by the    *)
(* network or with any HTTP status, no refresh is issued and the timers    *)
(* and ui.chatPolling are as before.                                       *)
C22_SendTriggersRefresh ==
    [][\A r \in Pending, out \in Outcomes :
          SendResponse(r, out) =>
              /\ timers' = timers /\ chatPolling' = chatPolling
              /\ out = "ok" =>
                    inflight' =
                        issue(settle(Cur, r), "getMessages", r.group).inflight
              /\ Failed(out) => inflight' = settle(Cur, r).inflight]_vars

(* C22, its case: a send to the displayed group has just succeeded while   *)
(* the page's timer is live and a refresh of its own tick is in flight:    *)
(* two refreshes of the group are now in flight.                           *)
C22_Witness ==
    /\ ev.op = "sendMessage" /\ ev.out = "ok"
    /\ page.kind = "group" /\ page.send = {page.group}
    /\ \E t \in timers : t.id = chatPolling /\ t.group = page.group
    /\ CopiesIn(Req("getMessages", page.group, {}), inflight) = 2

(* C23: setToken(t) with a non-empty token t leaves t under auth_token,    *)
(* setToken(null) leaves no auth_token (and so does the empty string,      *)
(* which the code takes for null), and whatever was set before, what is    *)
(* persisted after a call is what its own argument alone gives: the last   *)
(* call decides.  The client holds the argument itself.                    *)
C23_SetTokenRoundTrip ==
    /\ \A t \in TokenInputs :
          /\ Truthy(t) => setToken(Cur, t).ls = t
          /\ t = NoToken => setToken(Cur, t).ls = NoToken
          /\ \A t0 \in TokenInputs :
                /\ setToken(setToken(Cur, t0), t).ls = setToken(Cur, t).ls
                /\ setToken(setToken(Cur, t0), t).token = t
    /\ ev.op = "setToken" =>
          /\ token = ev.out
          /\ ls = IF ev.out = EmptyToken THEN NoToken ELSE ev.out

(* C23, its case: setToken("t2") has just been called while "t1" was       *)
(* persisted by a login, and "t2" is what auth_token reads.                *)
C23_Witness ==
    /\ ev.op = "setToken" /\ ev.out = "t2"
    /\ ls = "t2" /\ token = "t2" /\ isAuthenticated

(* A login or register has just succeeded. *)
LoginSucceeded(e) == e.op \in {"login", "register"} /\ e.out = "ok"

(* The methods of ApiService the application calls *)
RequestKinds ==
    {"getProfile", "login", "register", "getGroups", "getGroup",
     "getMessages", "sendMessage"}

(* C24: every request carries Authorization: Bearer <token> with the token *)
(* the client holds when it is sent, and no Authorization header when it   *)
(* holds none; after logout or a 401 the client holds no token, and from   *)
(* holding none it comes to hold one, and so to send one, only by a login  *)
(* or register that succeeds.                                              *)
C24_AuthorizationHeader ==
    /\ [](\A kind \in RequestKinds, g \in Groups \cup {NoGroup} :
            issue(Cur, kind, g).sent =
                << IF Truthy(token) THEN <<"Bearer", token>>
                   ELSE <<NoHeader>> >>)
    /\ [](ev.out = "401" => ~Truthy(token))
    /\ [][Logout => ~Truthy(token')]_vars
    /\ [][~Truthy(token) /\ ~LoginSucceeded(ev') => ~Truthy(token')]_vars

(* C25: a request whose fetch is rejected (no HTTP response) throws to its *)
(* caller an error that has no status, and in doing so changes neither    *)
(* the token, in the client and under auth_token, nor the auth state, and  *)
(* dispatches no auth:logout; the step of every caller but the token       *)
(* validation of startup ends with them unchanged as well.                 *)
C25_NetworkFailure ==
    /\ [](\A r \in Pending :
            LET s == settle(Cur, r)
                n == request(s, "net")
            IN  /\ Failed("net") /\ status("net") = NoStatus
                /\ n.token = s.token /\ n.ls = s.ls
                /\ authState(n) = authState(s)
                /\ n.dispatched = <<>>)
    /\ [][\A r \in Pending :
            (\/ GroupsResponse(r, "net")
             \/ GroupResponse(r, "net")
             \/ LoginResponse(r, "net", NoBody)) =>
                UNCHANGED <<token, ls, user, isAuthenticated, isLoading>>
         ]_vars

(* C25, its case: the fetch of a login or register was rejected by the     *)
(* network while the client held the token of a session.                   *)
C25_Witness ==
    /\ ev.op \in {"login", "register"} /\ ev.out = "net"
    /\ token = "t1" /\ ls = "t1" /\ isAuthenticated /\ user \in Users

(* C26: a submit of the login or register form whose email is invalid, or  *)
(* whose password has fewer than 6 characters, or, on the register form,   *)
(* whose name has fewer than 2 characters once trimmed, fails the          *)
(* validation: it issues no request and leaves the auth state and the      *)
(* token as they were.                                                     *)
C26_InvalidFormBlocksSubmit ==
    /\ [](\A kind \in {"login", "register"}, data \in FormData :
            (\/ ~validateEmail(data.email)
             \/ Len(data.password) < 6
             \/ kind = "register" /\ Len(trim(data.name)) < 2) =>
                LET n == submit(Cur, kind, data)
                IN  /\ ~validateForm(kind, data)
                    /\ n.inflight = inflight /\ n.sent = <<>>
                    /\ authState(n) = authState(Cur)
                    /\ n.token = token /\ n.ls = ls)
    /\ [][ev'.op = "submit" /\ ev'.out = "invalid" =>
            /\ inflight' = inflight
            /\ UNCHANGED <<user, isAuthenticated, isLoading, token, ls>>
         ]_vars

(* C26, its case: the register form was submitted with a field that fails  *)
(* the validation, and nothing is in flight.                               *)
C26_Witness ==
    /\ ev.op = "submit" /\ ev.out = "invalid"
    /\ page.kind = "register" /\ ~page.busy /\ inflight = EmptyBag

(* C27: canManageGroup(group) is true exactly when a user is logged in,    *)
(* the group is given and its owner_id is that user's id; likewise         *)
(* canDeleteMentorship with created_by and canDeleteMaterial with          *)
(* uploaded_by; with no session, or with a null item, each is false.       *)
C27_PermissionPredicates ==
    /\ \A group \in GroupItems :
          canManageGroup(Cur, group) <=>
              (isAuthenticated /\ user # NoUser
               /\ group.owner_id = UserId(user))
    /\ \A mentorship \in MentorshipItems :
          canDeleteMentorship(Cur, mentorship) <=>
              (isAuthenticated /\ user # NoUser
               /\ mentorship.created_by = UserId(user))
    /\ \A material \in MaterialItems :
          canDeleteMaterial(Cur, material) <=>
              (isAuthenticated /\ user # NoUser
               /\ material.uploaded_by = UserId(user))
    /\ ~canManageGroup(Cur, NoItem)
    /\ ~canDeleteMentorship(Cur, NoItem)
    /\ ~canDeleteMaterial(Cur, NoItem)
    /\ ~isAuthenticated =>
          /\ \A group \in GroupItems : ~canManageGroup(Cur, group)
          /\ \A mentorship \in MentorshipItems :
                ~canDeleteMentorship(Cur, mentorship)
          /\ \A material \in MaterialItems : ~canDeleteMaterial(Cur, material)

(* C27, its case: "u1" is logged in: it manages the group it owns and not  *)
(* the group "u2" owns, nor a group with no owner id.                      *)
C27_Witness ==
    /\ isAuthenticated /\ user = "u1"
    /\ canManageGroup(Cur, [owner_id |-> "u1"])
    /\ ~canManageGroup(Cur, [owner_id |-> "u2"])
    /\ ~canManageGroup(Cur, [owner_id |-> NoId])
    /\ canDeleteMentorship(Cur, [created_by |-> "u1"])
    /\ canDeleteMaterial(Cur, [uploaded_by |-> "u1"])

(* C28: once isLoading is false it stays false; from then on the auth      *)
(* state becomes authenticated only in the step of a login or register     *)
(* that returns with success, and becomes anonymous only by logout or by a *)
(* 401; loading ends only at construction with no persisted token or when  *)
(* the token validation settles.                                           *)
C28_AuthStateMachine ==
    /\ [][~isLoading => ~isLoading']_vars
    /\ [][isLoading /\ ~isLoading' => ev'.op = "getProfile"]_vars
    /\ [](isLoading => ls # NoToken \/ ev.op # "load")
    /\ [][~isLoading /\ ~isAuthenticated /\ isAuthenticated' =>
            /\ ev'.op \in {"login", "register"}
            /\ ev'.out \in {"ok", "noToken"}]_vars
    /\ [][~isLoading /\ isAuthenticated /\ ~isAuthenticated' =>
            Logout \/ ev'.out = "401"]_vars

(* C28, its case: a login has just succeeded, loading long over, while the *)
(* dashboard fetch of an earlier session is still in flight beside the one *)
(* of the new session.                                                     *)
C28_Witness ==
    /\ ev = Event("login", "ok")
    /\ isAuthenticated /\ ~isLoading /\ token = "t1"
    /\ CopiesIn(Req("getGroups", NoGroup, {}), inflight) = 2

(* A route is permitted in an auth state: it neither requires a session    *)
(* that is missing nor redirects the session that is there.                *)
Permitted(route, authenticated) ==
    /\ route.requiresAuth => authenticated
    /\ route.redirectIfAuth # NoPath => ~authenticated

(* What the run of the last navigation event did, from the state before    *)
(* it: navigate, or the popstate listener.                                 *)
Resolution ==
    IF ev'.op = "popstate"
    THEN handleRoute([Cur EXCEPT !.hidx = hidx'], ev'.path)
    ELSE navigate(Cur, ev'.path, ev'.op = "replace")

(* C29: currentRoute and currentParams change only by the assignment in    *)
(* handleRoute, made only for a path whose route is matched and permitted  *)
(* at that moment, and it assigns the path being resolved and the          *)
(* parameters extracted from it; a resolution that finds no route assigns  *)
(* nothing, and one that redirects for auth assigns nothing for the path   *)
(* it redirects from (what the resolution of the redirect target assigns   *)
(* is that resolution's).  So whenever a step changes them they end as the *)
(* path and the parameters of a matched route, permitted as the step ends. *)
C29_CurrentRouteSingleWriter ==
    /\ [][currentRoute' # currentRoute \/ currentParams' # currentParams =>
            /\ findRoute(currentRoute') # NoRoute
            /\ currentParams' = findRoute(currentRoute').params
            /\ Permitted(findRoute(currentRoute'), isAuthenticated')]_vars
    /\ [][ev'.op \in {"navigate", "replace", "popstate"} =>
            LET W == Resolution.writes
                route == findRoute(ev'.path)
                skipped == ev'.op # "popstate" /\ ev'.path = currentRoute
            IN  /\ \A i \in 1..Len(W) :
                      /\ findRoute(W[i].path) # NoRoute
                      /\ Permitted(findRoute(W[i].path), W[i].isAuthenticated)
                      /\ W[i].currentRoute = W[i].path
                      /\ W[i].currentParams = findRoute(W[i].path).params
                /\ IF W = <<>>
                   THEN UNCHANGED <<currentRoute, currentParams>>
                   ELSE /\ currentRoute' = W[Len(W)].currentRoute
                        /\ currentParams' = W[Len(W)].currentParams
                /\ route = NoRoute => W = <<>>
                /\ route # NoRoute /\ ~Permitted(route, isAuthenticated) =>
                      \A i \in 1..Len(W) : W[i].path # ev'.path
                /\ (route # NoRoute /\ Permitted(route, isAuthenticated)
                    /\ ~skipped) =>
                      W # <<>> /\ W[1].path = ev'.path]_vars

(* C29, its case: back to /dashboard with no session: the resolution       *)
(* redirected, nothing was assigned for /dashboard, and the resolution of  *)
(* /login assigned /login.                                                 *)
C29_Witness ==
    /\ ev.op = "popstate" /\ ev.path = DashboardPath
    /\ ~isAuthenticated /\ currentRoute = LoginPath
    /\ currentParams = NoParams /\ page.kind = "login"

(* C30: a click on an in-app link with no modifier key held is handled by  *)
(* the router: the default action is prevented and navigate is called with *)
(* the link's path; a click with ctrl, meta, shift or alt held is left to  *)
(* the browser: the default action is not prevented and nothing is         *)
(* navigated.                                                              *)
C30_LinkClicks ==
    [][ev'.op \in {"click", "clickPassed"} =>
          IF Held(ev'.out) = {}
          THEN ev'.op = "click" /\ Becomes(navigate(Cur, ev'.path, FALSE))
          ELSE /\ ev'.op = "clickPassed"
               /\ UNCHANGED <<user, isAuthenticated, isLoading, listeners,
                              token, ls, currentRoute, currentParams, hist,
                              hidx, page, chatPolling, currentGroupId, timers,
                              inflight>>]_vars

(* The route handlers a run has invoked: handleRoute assigns currentRoute  *)
(* right before each call of route.handler, and nowhere else.  In n, the   *)
(* state a run ends in, the number of invocations of the handler of the    *)
(* route that is current.                                                  *)
Invocations(n) ==
    Cardinality({i \in 1..Len(n.writes) :
                    n.writes[i].currentRoute = n.currentRoute})

(* C31: at startup, whatever the initial path and however the token        *)
(* validation ends, when the auth state has left loading and a route page  *)
(* is shown, the handler of that route has been invoked exactly once: with *)
(* no persisted token by the construction, with one by the run that takes  *)
(* the profile response.                                                   *)
C31_StartupHandlerOnce ==
    ev.op = "load" =>
        /\ \A p0 \in Paths :
              Is(Constructed(p0, NoToken)) =>
                  (page.kind \notin {"blank", "notfound"} =>
                      Invocations(Constructed(p0, NoToken)) = 1)
        /\ \A r \in Pending, out \in Outcomes, u \in Users \cup {NoUser} :
              r.kind = "getProfile" /\ (out = "ok") = (u # NoUser) =>
                  LET n == init(settle(Cur, r), out, u)
                  IN  n.page.kind \notin {"blank", "notfound"} =>
                          Invocations(n) = 1

(* C32: navigate(p), called while the not-found page or the error page is  *)
(* displayed with the path of a route that is permitted in the current     *)
(* auth state, renders that route, also when p is the path that was        *)
(* current before that page appeared: the route's handler is invoked, the  *)
(* login, register or dashboard page is displayed, or the group's fetch is *)
(* in flight.                                                              *)
C32_NavigateFromErrorPages ==
    [][(/\ ev'.op \in {"navigate", "replace"}
        /\ page.kind \in {"notfound", "error"}
        /\ findRoute(ev'.path).name \in
              {"login", "register", "dashboard", "group"}
        /\ Permitted(findRoute(ev'.path), isAuthenticated)) =>
          /\ \E i \in 1..Len(Resolution.writes) :
                Resolution.writes[i].path = ev'.path
          /\ currentRoute' = ev'.path
          /\ IF findRoute(ev'.path).name = "group"
             THEN \E r \in BagToSet(inflight') :
                    /\ r.kind = "getGroup"
                    /\ GroupPath(r.group) = ev'.path
                    /\ CopiesIn(r, inflight') > CopiesIn(r, inflight)
             ELSE page'.kind = findRoute(ev'.path).name]_vars

(* C33: when the step after a login or register that succeeded is a 401    *)
(* answering a request that was in flight before that login completed      *)
(* (any but the dashboard's fetch, which the completed login issues with   *)
(* the new token), the new session survives: the token stays in the client *)
(* and under auth_token, and the auth state stays authenticated.           *)
C33_LateUnauthorizedKeepsSession ==
    [][(/\ ev.op \in {"login", "register"} /\ ev.out = "ok"
        /\ ev'.out = "401" /\ ev'.op # "getGroups") =>
          /\ token' = token /\ ls' = ls
          /\ isAuthenticated' /\ user' = user]_vars

(* C34: the messages displayed in the chat of a group page are that        *)
(* group's, whatever refresh was in flight when the page was rendered or   *)
(* when startChatPolling replaced the polling session.                     *)
C34_ChatShowsOwnGroup ==
    page.kind = "group" /\ page.chat # "none" => page.chat = page.group

(* C35: once the refresh that follows a send has been displayed, the chat  *)
(* displays that refresh or one issued after it, never one issued before.  *)
C35_SendRefreshNotOverwritten ==
    Shown # "stale"

(* C36: outside loading no token is persisted under auth_token while       *)
(* isAuthenticated is false; and a login or register that fails (a failure *)
(* status, a rejected fetch, a 2xx response with success false or with no  *)
(* user) in an anonymous client with no token leaves it anonymous, with no *)
(* token in the client and none persisted.                                 *)
C36_FailedLoginStoresNoToken ==
    /\ [](~isLoading /\ ~isAuthenticated => ls = NoToken)
    /\ [][(/\ ev'.op \in {"login", "register"}
           /\ ev'.out \in {"bad", "401", "err", "net", "noUser"}
           /\ Anonymous /\ token = NoToken /\ ls = NoToken) =>
            /\ ~isAuthenticated' /\ user' = NoUser
            /\ token' = NoToken /\ ls' = NoToken]_vars

(* The paths one resolution of path goes through, n being the state it     *)
(* ends in: the path itself, then the target of each redirect.             *)
Chain(path, n) == <<path>> \o n.navigated

(* C37: handleRoute, called with any path in any state, ends after at most *)
(* two redirects, which lead to /login or /dashboard and never to a path   *)
(* the resolution has been through; and it ends with the not-found page    *)
(* rendered, or as a no-op on a redirect to the route that is already      *)
(* current, or with the handler of a permitted route invoked for the last  *)
(* path.                                                                   *)
C37_ResolutionTerminates ==
    \A path \in PathInputs :
        LET n == handleRoute(Cur, path)
            chain == Chain(path, n)
            last == chain[Len(chain)]
        IN  /\ Len(chain) <= 3
            /\ \A i, j \in 1..Len(chain) : i < j => chain[i] # chain[j]
            /\ \A i \in 2..Len(chain) : chain[i] \in RedirectTargets
            /\ \/ /\ findRoute(last) = NoRoute
                  /\ Len(chain) = 1 /\ n.page = NotFoundPage
               \/ /\ Len(chain) > 1 /\ last = n.currentRoute
                  /\ n.writes = <<>> \/ n.writes[Len(n.writes)].path # last
                  /\ n.page = page /\ n.inflight = inflight
               \/ /\ n.writes # <<>>
                  /\ n.writes[Len(n.writes)].path = last
                  /\ Permitted(findRoute(last), isAuthenticated)
                  /\ findRoute(last).name # "root"

(* C37, its case: navigate('/') with a session went through the root       *)
(* route's handler and one redirect, and ended on the dashboard.           *)
C37_Witness ==
    /\ ev.op = "navigate" /\ ev.path = RootPath
    /\ isAuthenticated /\ currentRoute = DashboardPath
    /\ hist[hidx] = DashboardPath /\ page.kind = "dashboard"

(* C38: whatever the application has been through (startup, login,         *)
(* register, logout, navigation, any outcome of any request), the token    *)
(* the client holds in memory is the one persisted under auth_token: both  *)
(* are absent, or both are the same token.                                 *)
C38_TokenMatchesStorage ==
    \/ token = NoToken /\ ls = NoToken
    \/ token \in Tokens /\ ls = token

(* C38, its case: a register answered with a token and no user has failed, *)
(* and the token it left is in the client and under auth_token alike.      *)
C38_Witness ==
    /\ ev = Event("register", "noUser")
    /\ ~isAuthenticated /\ token = "t1" /\ ls = "t1"

=============================================================================
